---- MODULE Spec2Model ----
(***************************************************************************)
(* Upload job processing of fastapi-excel-ingestion: the upload_jobs       *)
(* ledger (app/crud.py), the ingestion engine process_excel_job, the       *)
(* startup recovery _recover_jobs_after_restart and the retention sweep    *)
(* cleanup_expired_uploads (app/main.py).                                  *)
(*                                                                         *)
(* Conventions.  A Python str is a TLA+ string; a message built by an      *)
(* f-string is a tuple of tokens.  None is the empty tuple for the error   *)
(* column and NoTime for a DateTime column.  datetime.utcnow() is the      *)
(* variable now, counted in hours.  A spreadsheet cell is a tagged record. *)
(***************************************************************************)
EXTENDS Integers, Sequences, FiniteSets, TLC

\* ---------------------------------------------------------------- bounds
MaxJobs == 2        \* uploads accepted in one behaviour
MaxRows == 3        \* data rows of an uploaded sheet
MaxChunk == 2       \* largest configured EXCEL_CHUNK_SIZE
MaxTime == 2        \* the clock stops ticking here
MaxCrashes == 2     \* process deaths in one behaviour
MaxWorkers == 1     \* worker threads serving lookups at the same time
MaxCols == 4        \* cells of a header row

\* UPLOAD_FILE_RETENTION_HOURS (env, default 72), scaled to the clock
UPLOAD_FILE_RETENTION_HOURS == 1
REQUIRED_COLUMNS == <<"name", "email", "age">>

NoTime == -1
NoText == <<>>

MsgInterrupted == <<"Job interrupted because server restarted">>
MsgFileNotFound == <<"Queued job file not found after server restart">>
MsgEmpty == <<"Excel file is empty">>
MsgOpen == <<"File is not a zip file">>
MsgStorage == <<"(pymysql.err.OperationalError) storage write failed">>
MsgOverflow == <<"cannot convert float infinity to integer">>
MsgIndex == <<"tuple index out of range">>

\* an exception is its class and its str(); NoExc: nothing was raised
Exc(type, text) == [type |-> type, text |-> text]
NoExc == Exc("none", NoText)

Range(s) == {s[i] : i \in 1..Len(s)}

\* ------------------------------------------------------ cells and strings
CNone == [t |-> "none"]
CStr(s) == [t |-> "str", s |-> s]
CInt(n) == [t |-> "int", n |-> n]
\* a float cell, in tenths: CFloat(307) is 30.7
CFloat(x) == [t |-> "float", x |-> x]
CInf == [t |-> "inf"]
CNan == [t |-> "nan"]

\* str.strip() on the strings the sheets of the model contain
strip(s) ==
  CASE s = " bob " -> "bob"
    [] s = " Name " -> "Name"
    [] s = " 41 " -> "41"
    [] s = "  " -> ""
    [] OTHER -> s

\* str.lower()
lower(s) ==
  CASE s = "Name" -> "name"
    [] s = "EMAIL" -> "email"
    [] s = "Age" -> "age"
    [] OTHER -> s

\* str(n) for the integers the sheets of the model contain
IntText(n) ==
  CASE n = 0 -> "0"
    [] n = 7 -> "7"
    [] n = 30 -> "30"
    [] OTHER -> "<int>"

\* str(value) of a cell value
Str(c) ==
  CASE c.t = "str" -> c.s
    [] c.t = "int" -> IntText(c.n)
    [] c.t = "none" -> "None"
    [] c.t = "inf" -> "inf"
    [] c.t = "nan" -> "nan"
    [] OTHER -> "<float>"

\* Python truthiness of a cell value
Truthy(c) ==
  CASE c.t = "none" -> FALSE
    [] c.t = "str" -> c.s # ""
    [] c.t = "int" -> c.n # 0
    [] c.t = "float" -> c.x # 0
    [] OTHER -> TRUE

\* float(s) of a str: tenths, "inf", "nan", or ValueError
ParseFloat(s) ==
  CASE strip(s) = "41" -> CFloat(410)
    [] strip(s) = "4.9" -> CFloat(49)
    [] strip(s) = "-4.9" -> CFloat(-49)
    [] strip(s) = "inf" -> CInf
    [] strip(s) = "nan" -> CNan
    [] OTHER -> [t |-> "ValueError"]

\* float(value): TypeError does not arise, None and "" are excluded before
ToFloat(c) ==
  CASE c.t = "str" -> ParseFloat(c.s)
    [] c.t = "int" -> CFloat(c.n * 10)
    [] OTHER -> c

\* int(x) of a finite float in tenths: truncation toward zero
Trunc(x) == IF x >= 0 THEN x \div 10 ELSE -((-x) \div 10)

\* the age of _normalize_row: [exc, age]; int(float("nan")) is a ValueError,
\* which the function catches, int(float("inf")) an OverflowError, which
\* it does not
AgeOf(c) ==
  IF c.t = "none" \/ (c.t = "str" /\ c.s = "")
  THEN [exc |-> NoExc, age |-> 0]
  ELSE LET f == ToFloat(c) IN
       CASE f.t = "float" -> [exc |-> NoExc, age |-> Trunc(f.x)]
         [] f.t = "inf" -> [exc |-> Exc("OverflowError", MsgOverflow), age |-> 0]
         [] OTHER -> [exc |-> NoExc, age |-> 0]

\* _normalize_row: [exc, user]; exc is the exception that escapes it
_normalize_row(raw_row, column_map) ==
  IF \E col \in DOMAIN column_map : column_map[col] > Len(raw_row)
  THEN [exc |-> Exc("IndexError", MsgIndex),
        user |-> [name |-> "", email |-> "", age |-> 0]]
  ELSE
  LET get_value(col) == raw_row[column_map[col]]
      text(col) == IF Truthy(get_value(col)) THEN strip(Str(get_value(col))) ELSE ""
      a == AgeOf(get_value("age"))
  IN [exc |-> a.exc,
      user |-> [name |-> text("name"), email |-> text("email"), age |-> a.age]]

\* the blank-row test of process_excel_job
IsBlankIgnoresAge(user) == user.name = "" /\ user.email = ""
IsBlank(user) == user.name = "" /\ user.email = "" /\ user.age = 0

\* ------------------------------------------------------------ the header
\* header_map of process_excel_job: key -> position in the row, last one wins
HeaderKey(c) == lower(strip(Str(c)))
HeaderKeys(headers) ==
  {HeaderKey(headers[i]) : i \in {k \in 1..Len(headers) :
      headers[k].t # "none" /\ strip(Str(headers[k])) # ""}}
header_map(headers) ==
  [key \in HeaderKeys(headers) |->
     CHOOSE i \in 1..Len(headers) :
       /\ headers[i].t # "none" /\ strip(Str(headers[i])) # ""
       /\ HeaderKey(headers[i]) = key
       /\ \A k \in (i+1)..Len(headers) :
            headers[k].t = "none" \/ HeaderKey(headers[k]) # key]

RECURSIVE Filter(_, _)
Filter(seq, keep) ==
  IF seq = <<>> THEN <<>>
  ELSE (IF Head(seq) \in keep THEN <<Head(seq)>> ELSE <<>>) \o Filter(Tail(seq), keep)

\* [column for column in required if column not in header_map]
missing_columns_first(headers, required) ==
  LET missing == Filter(required, Range(required) \ HeaderKeys(headers))
  IN IF missing = <<>> THEN <<>> ELSE <<Head(missing)>>
missing_columns(headers, required) ==
  Filter(required, Range(required) \ HeaderKeys(headers))

MsgMissing(required, missing) ==
  <<"Excel must contain columns:">> \o required \o <<"Missing:">> \o missing

\* header_map[col] of a key the header lacks: KeyError(col), str(exc) = "'col'"
MsgKey(col) == <<"'", col, "'">>
COLUMNS == <<"name", "email", "age">>
unmapped(headers) == Filter(COLUMNS, Range(COLUMNS) \ HeaderKeys(headers))

column_map(headers) ==
  [col \in {"name", "email", "age"} |-> header_map(headers)[col]]

\* ------------------------------------------------------------ the ledger
\* app/crud.py; L is the upload_jobs table, a function job_id -> row
create_upload_job(L, job_id, saved_path, chunk_size, t) ==
  [j \in DOMAIN L \cup {job_id} |->
     IF j = job_id
     THEN [saved_path |-> saved_path, status |-> "queued",
           chunk_size |-> chunk_size, inserted_rows |-> 0, error |-> NoText,
           created_at |-> t, started_at |-> NoTime, completed_at |-> NoTime,
           file_deleted_at |-> NoTime]
     ELSE L[j]]

set_upload_job_running_stays_queued(L, job_id, t) ==
  [j \in DOMAIN L |->
     IF j = job_id THEN [L[j] EXCEPT !.started_at = t, !.error = NoText] ELSE L[j]]

set_upload_job_running(L, job_id, t) ==
  [j \in DOMAIN L |->
     IF j = job_id
     THEN [L[j] EXCEPT !.status = "running", !.started_at = t, !.error = NoText]
     ELSE L[j]]

set_upload_job_completed(L, job_id, inserted_rows, t) ==
  [j \in DOMAIN L |->
     IF j = job_id
     THEN [L[j] EXCEPT !.status = "completed", !.inserted_rows = inserted_rows,
                       !.completed_at = t, !.error = NoText]
     ELSE L[j]]

set_upload_job_failed_keeps_status(L, job_id, error, t) ==
  [j \in DOMAIN L |->
     IF j = job_id
     THEN [L[j] EXCEPT !.error = error, !.completed_at = t]
     ELSE L[j]]

set_upload_job_failed(L, job_id, error, t) ==
  [j \in DOMAIN L |->
     IF j = job_id
     THEN [L[j] EXCEPT !.status = "failed", !.error = error, !.completed_at = t]
     ELSE L[j]]

mark_upload_file_deleted(L, job_id, t) ==
  [j \in DOMAIN L |->
     IF j = job_id THEN [L[j] EXCEPT !.file_deleted_at = t] ELSE L[j]]

get_jobs_for_cleanup_no_cutoff(L, completed_before) ==
  {j \in DOMAIN L :
     /\ L[j].completed_at # NoTime
     /\ L[j].file_deleted_at = NoTime}

get_jobs_for_cleanup(L, completed_before) ==
  {j \in DOMAIN L :
     /\ L[j].completed_at # NoTime
     /\ L[j].completed_at <= completed_before
     /\ L[j].file_deleted_at = NoTime}

get_upload_jobs_by_status_unfiltered(L, statuses) ==
  IF statuses = {} THEN {} ELSE DOMAIN L

get_upload_jobs_by_status_or_failed(L, statuses) ==
  IF statuses = {} THEN {}
  ELSE {j \in DOMAIN L : L[j].status \in statuses \cup {"failed"}}

get_upload_jobs_by_status_or_completed(L, statuses) ==
  IF statuses = {} THEN {}
  ELSE {j \in DOMAIN L : L[j].status \in statuses \cup {"completed"}}
get_upload_jobs_by_status(L, statuses) ==
  IF statuses = {} THEN {} ELSE {j \in DOMAIN L : L[j].status \in statuses}

\* bulk_insert_users: the users table, kept as the batches each job committed
bulk_insert_users_replacing(U, job_id, batch) == [U EXCEPT ![job_id] = <<batch>>]
bulk_insert_users(U, job_id, batch) ==
  [U EXCEPT ![job_id] = Append(@, batch)]

\* ------------------------------------------------------------ the uploads
HeaderOk == <<CStr(" Name "), CStr("EMAIL"), CStr("age")>>
HeaderNameOnly == <<CNone, CStr("name"), CStr("  ")>>
RowValid == <<CStr(" bob "), CStr("b@x"), CInt(30)>>
RowBlank == <<CNone, CStr("  "), CStr("abc")>>
RowInf == <<CStr("amy"), CNone, CInf>>
RowSamples == {RowValid, RowBlank, RowInf}

SeqsUpTo(S, n) == UNION {[1..k -> S] : k \in 0..n}

\* a saved upload: load_workbook raises on an unreadable one; sheet is the
\* rows of the active worksheet, the header first
File(readable, sheet) == [readable |-> readable, sheet |-> sheet]
FileCorrupt == File(FALSE, <<>>)
FileEmpty == File(TRUE, <<>>)
FileNoColumns == File(TRUE, <<HeaderNameOnly, RowValid>>)
FileOf(rows) == File(TRUE, <<HeaderOk>> \o rows)
AllFiles ==
  {FileCorrupt, FileEmpty, FileNoColumns} \cup
  {FileOf(rows) : rows \in SeqsUpTo(RowSamples, MaxRows)}
FewFiles == {FileOf(<<RowValid>>)}

Settings ==
  [EXCEL_CHUNK_SIZE : 1..MaxChunk, CLEANUP_EXPIRED_UPLOADS : BOOLEAN,
   REQUIRED_COLUMNS : {REQUIRED_COLUMNS}]

\* ------------------------------------------------------------- the state
VARIABLES
  jobs,       \* the upload_jobs table
  users,      \* the users table: job_id -> the batches committed for it
  disk,       \* the upload directory: job_id -> [exists, file]
  engine,     \* job_id -> the process_excel_job run of this process
  request,    \* slot -> a request handler in progress
  recovery,   \* _recover_jobs_after_restart: its position, the two query
              \* results and the jobs its current loop has yet to visit
  server,     \* "down", "starting" (startup event) or "serving"
  settings,   \* app/config.py, read when the process starts
  now,        \* datetime.utcnow()
  crashes,    \* process deaths so far
  inbox       \* the files the clients have yet to upload

vars == <<jobs, users, disk, engine, request, recovery, server, settings,
          now, crashes, inbox>>

JobIds == 1..MaxJobs
\* a handler runs on the event loop (upload_excel, async def) or on a worker
\* thread (get_job_status and cleanup_jobs, def)
EventLoop == 0
Slots == {EventLoop} \cup (1..MaxWorkers)
KindOf(s) == IF s = EventLoop THEN "upload" ELSE "lookup"
Created == DOMAIN jobs

NoThread == [pc |-> "none", pos |-> 0, batch |-> <<>>, inserted_rows |-> 0,
             exc |-> NoExc]
Pending == [NoThread EXCEPT !.pc = "pending"]
Idle == [pc |-> "idle", kind |-> "none", todo |-> {}, job |-> 0]
NoRecovery == [pc |-> "none", interrupted |-> {}, queued |-> {}, todo |-> {}]

InitGiven(uploads, configs) ==
  /\ jobs = <<>>
  /\ users = [j \in JobIds |-> <<>>]
  /\ disk = [j \in JobIds |-> [exists |-> FALSE, file |-> FileEmpty]]
  /\ engine = [j \in JobIds |-> NoThread]
  /\ request = [s \in Slots |-> Idle]
  /\ recovery = [NoRecovery EXCEPT !.pc = "done"]
  /\ server = "serving"
  /\ settings \in configs
  /\ now = 0
  /\ crashes = 0
  /\ inbox \in uploads

InitWith(uploads) == InitGiven(uploads, Settings)
Init == InitWith([1..MaxJobs -> FewFiles])
InitEngine == InitWith({<<f>> : f \in AllFiles})
InitLive == InitWith({<<f>> : f \in FewFiles})

\* a for loop ends when its list is exhausted
ExhaustedEarly(todo) == TRUE
Exhausted(todo) == todo = {}

\* Path.exists()
PathExistsAlways(d, path) == TRUE
PathExists(d, path) == d[path].exists

\* ------------------------------------------------------------- the clock
Tick ==
  /\ now < MaxTime
  /\ now' = now + 1
  /\ UNCHANGED <<jobs, users, disk, engine, request, recovery, server,
                 settings, crashes, inbox>>

\* ---------------------------------------------------- process_excel_job
\* except Exception: every exception class a run can raise derives from it
CaughtValueError(exc) == exc.type = "ValueError"
Caught(exc) ==
  exc.type \in {"ValueError", "OverflowError", "IndexError", "KeyError",
                "InvalidFileException", "OperationalError"}

\* len(batch) >= settings.EXCEL_CHUNK_SIZE
BatchFullLate(batch, chunk_size) == Len(batch) > chunk_size
BatchFull(batch, chunk_size) == Len(batch) >= chunk_size

\* the except and finally clauses: the run ends, recording str(exc)
Fail(j, exc) ==
  /\ engine' = [engine EXCEPT ![j].pc = IF Caught(exc) THEN "returned" ELSE "raised",
                              ![j].exc = exc]
  /\ jobs' = IF Caught(exc) THEN set_upload_job_failed(jobs, j, exc.text, now)
             ELSE jobs
  /\ UNCHANGED users

\* set_upload_job_running, the first statement of the try block
EngineStart(j) ==
  /\ server # "down"
  /\ engine[j].pc = "pending"
  /\ jobs' = set_upload_job_running(jobs, j, now)
  /\ engine' = [engine EXCEPT ![j].pc = "open"]
  /\ UNCHANGED <<users, disk, request, recovery, server, settings, now,
                 crashes, inbox>>

\* load_workbook, the header row, header_map, missing_columns and column_map
EngineOpen(j) ==
  /\ server # "down"
  /\ engine[j].pc = "open"
  /\ LET f == disk[j].file IN
     IF ~PathExists(disk, j) \/ ~f.readable
     THEN Fail(j, Exc("InvalidFileException", MsgOpen))
     ELSE IF f.sheet = <<>>
     THEN Fail(j, Exc("ValueError", MsgEmpty))
     ELSE IF missing_columns(f.sheet[1], settings.REQUIRED_COLUMNS) # <<>>
     THEN Fail(j, Exc("ValueError",
                      MsgMissing(settings.REQUIRED_COLUMNS,
                                 missing_columns(f.sheet[1], settings.REQUIRED_COLUMNS))))
     ELSE IF unmapped(f.sheet[1]) # <<>>
     THEN Fail(j, Exc("KeyError", MsgKey(Head(unmapped(f.sheet[1])))))
     ELSE /\ engine' = [engine EXCEPT ![j].pc = "rows", ![j].pos = 1]
          /\ UNCHANGED <<jobs, users>>
  /\ UNCHANGED <<disk, request, recovery, server, settings, now, crashes, inbox>>

\* one iteration of "for row in rows"; storage_ok: the bulk write succeeds
EngineRow(j, storage_ok) ==
  /\ server # "down"
  /\ engine[j].pc = "rows"
  /\ engine[j].pos < Len(disk[j].file.sheet)
  /\ LET sheet == disk[j].file.sheet
         n == _normalize_row(sheet[engine[j].pos + 1], column_map(sheet[1]))
         batch == Append(engine[j].batch, n.user)
     IN
     IF n.exc # NoExc
     THEN Fail(j, n.exc)
     ELSE IF IsBlank(n.user)
     THEN /\ engine' = [engine EXCEPT ![j].pos = @ + 1]
          /\ UNCHANGED <<jobs, users>>
     ELSE IF BatchFull(batch, settings.EXCEL_CHUNK_SIZE)
     THEN IF storage_ok
          THEN /\ users' = bulk_insert_users(users, j, batch)
               /\ engine' = [engine EXCEPT ![j].pos = @ + 1,
                                           ![j].inserted_rows = @ + Len(batch),
                                           ![j].batch = <<>>]
               /\ UNCHANGED jobs
          ELSE Fail(j, Exc("OperationalError", MsgStorage))
     ELSE /\ engine' = [engine EXCEPT ![j].pos = @ + 1, ![j].batch = batch]
          /\ UNCHANGED <<jobs, users>>
  /\ UNCHANGED <<disk, request, recovery, server, settings, now, crashes, inbox>>

\* "if batch:" after the loop
EngineFinalFlush(j, storage_ok) ==
  /\ server # "down"
  /\ engine[j].pc = "rows"
  /\ engine[j].pos = Len(disk[j].file.sheet)
  /\ engine[j].batch # <<>>
  /\ IF storage_ok
     THEN /\ users' = bulk_insert_users(users, j, engine[j].batch)
          /\ engine' = [engine EXCEPT ![j].pc = "complete",
                                      ![j].inserted_rows = @ + Len(engine[j].batch)]
          /\ UNCHANGED jobs
     ELSE Fail(j, Exc("OperationalError", MsgStorage))
  /\ UNCHANGED <<disk, request, recovery, server, settings, now, crashes, inbox>>

\* set_upload_job_completed, then finally
EngineComplete(j) ==
  /\ server # "down"
  /\ \/ engine[j].pc = "complete"
     \/ /\ engine[j].pc = "rows"
        /\ engine[j].pos = Len(disk[j].file.sheet)
        /\ engine[j].batch = <<>>
  /\ jobs' = set_upload_job_completed(jobs, j, engine[j].inserted_rows, now)
  /\ engine' = [engine EXCEPT ![j].pc = "returned"]
  /\ UNCHANGED <<users, disk, request, recovery, server, settings, now,
                 crashes, inbox>>

\* ------------------------------------------- the process and its restart
\* the process dies: its threads and handlers are gone, the tables and the
\* upload directory stay
Crash ==
  /\ server # "down"
  /\ crashes < MaxCrashes
  /\ crashes' = crashes + 1
  /\ server' = "down"
  /\ engine' = [j \in JobIds |-> NoThread]
  /\ request' = [s \in Slots |-> Idle]
  /\ recovery' = NoRecovery
  /\ UNCHANGED <<jobs, users, disk, settings, now, inbox>>

\* while the process is down somebody removes a saved upload that is still
\* waiting for its run
FileLost(j) ==
  /\ server = "down"
  /\ j \in Created
  /\ jobs[j].status = "queued"
  /\ disk[j].exists
  /\ disk' = [disk EXCEPT ![j].exists = FALSE]
  /\ UNCHANGED <<jobs, users, engine, request, recovery, server, settings,
                 now, crashes, inbox>>

\* the process starts (app/config.py is read) and startup_recovery begins:
\* interrupted_jobs = get_upload_jobs_by_status(db, ["running"])
Restart(cfg) ==
  /\ server = "down"
  /\ server' = "starting"
  /\ settings' = cfg
  /\ recovery' = [pc |-> "interrupted",
                  interrupted |-> get_upload_jobs_by_status(jobs, {"running"}),
                  queued |-> {},
                  todo |-> get_upload_jobs_by_status(jobs, {"running"})]
  /\ UNCHANGED <<jobs, users, disk, engine, request, now, crashes, inbox>>

\* one iteration of "for job in interrupted_jobs"
RecoverInterrupted(j) ==
  /\ recovery.pc = "interrupted"
  /\ j \in recovery.todo
  /\ jobs' = set_upload_job_failed(jobs, j, MsgInterrupted, now)
  /\ recovery' = [recovery EXCEPT !.todo = @ \ {j}]
  /\ UNCHANGED <<users, disk, engine, request, server, settings, now,
                 crashes, inbox>>

\* queued_jobs = get_upload_jobs_by_status(db, ["queued"])
RecoverQueryQueued ==
  /\ recovery.pc = "interrupted"
  /\ Exhausted(recovery.todo)
  /\ recovery' = [recovery EXCEPT !.pc = "queued",
                    !.queued = get_upload_jobs_by_status(jobs, {"queued"}),
                    !.todo = get_upload_jobs_by_status(jobs, {"queued"})]
  /\ UNCHANGED <<jobs, users, disk, engine, request, server, settings, now,
                 crashes, inbox>>

\* one iteration of "for job in queued_jobs"
RecoverQueued(j) ==
  /\ recovery.pc = "queued"
  /\ j \in recovery.todo
  /\ recovery' = [recovery EXCEPT !.todo = @ \ {j}]
  /\ IF ~PathExists(disk, jobs[j].saved_path)
     THEN /\ jobs' = set_upload_job_failed(jobs, j, MsgFileNotFound, now)
          /\ UNCHANGED engine
     ELSE /\ engine' = [engine EXCEPT ![j] = Pending]
          /\ UNCHANGED jobs
  /\ UNCHANGED <<users, disk, request, server, settings, now, crashes, inbox>>

\* _recover_jobs_after_restart returns: the application starts serving
RecoverReturn ==
  /\ recovery.pc = "queued"
  /\ Exhausted(recovery.todo)
  /\ recovery' = [NoRecovery EXCEPT !.pc = "done"]
  /\ server' = "serving"
  /\ UNCHANGED <<jobs, users, disk, engine, request, settings, now, crashes,
                 inbox>>

\* ------------------------------------------------- the request handlers
\* the jobs a sweep selects: cleanup_expired_uploads up to its loop
Selected ==
  IF ~settings.CLEANUP_EXPIRED_UPLOADS THEN {}
  ELSE get_jobs_for_cleanup(jobs, now - UPLOAD_FILE_RETENTION_HOURS)

\* the handler after cleanup_expired_uploads: upload_excel saves the file,
\* creates the job and schedules the run; the other handlers only read
Respond(s, kind) ==
  /\ request' = [request EXCEPT ![s] = Idle]
  /\ IF kind = "upload"
     THEN LET job_id == Cardinality(Created) + 1 IN
          /\ disk' = [disk EXCEPT ![job_id] = [exists |-> TRUE, file |-> Head(inbox)]]
          /\ jobs' = create_upload_job(jobs, job_id, job_id,
                                       settings.EXCEL_CHUNK_SIZE, now)
          /\ engine' = [engine EXCEPT ![job_id] = Pending]
          /\ inbox' = Tail(inbox)
     ELSE UNCHANGED <<jobs, disk, engine, inbox>>

\* a handler starts and runs cleanup_expired_uploads up to its loop
BeginRequest(s) ==
  /\ server = "serving"
  /\ request[s].pc = "idle"
  /\ KindOf(s) = "upload" => inbox # <<>>
  /\ IF Selected = {}
     THEN Respond(s, KindOf(s))
     ELSE /\ request' = [request EXCEPT ![s] =
                           [pc |-> "loop", kind |-> KindOf(s), todo |-> Selected,
                            job |-> 0]]
          /\ UNCHANGED <<jobs, disk, engine, inbox>>
  /\ UNCHANGED <<users, recovery, server, settings, now, crashes>>

\* "for job in cleanup_jobs": exists, is_file, unlink; os_error: one of them
\* raises OSError and the loop continues with the next job
SweepUnlinkAborting(s, j, os_error) ==
  /\ request[s].pc = "loop"
  /\ j \in request[s].todo
  /\ IF PathExists(disk, jobs[j].saved_path)
     THEN IF os_error
          THEN /\ request' = [request EXCEPT ![s].todo = {}]
               /\ UNCHANGED disk
          ELSE /\ disk' = [disk EXCEPT ![jobs[j].saved_path].exists = FALSE]
               /\ request' = [request EXCEPT ![s].pc = "mark", ![s].job = j]
     ELSE /\ request' = [request EXCEPT ![s].pc = "mark", ![s].job = j]
          /\ UNCHANGED disk
  /\ UNCHANGED <<jobs, users, engine, recovery, server, settings, now,
                 crashes, inbox>>
SweepUnlink(s, j, os_error) ==
  /\ request[s].pc = "loop"
  /\ j \in request[s].todo
  /\ IF PathExists(disk, jobs[j].saved_path)
     THEN IF os_error
          THEN /\ request' = [request EXCEPT ![s].todo = @ \ {j}]
               /\ UNCHANGED disk
          ELSE /\ disk' = [disk EXCEPT ![jobs[j].saved_path].exists = FALSE]
               /\ request' = [request EXCEPT ![s].pc = "mark", ![s].job = j]
     ELSE /\ request' = [request EXCEPT ![s].pc = "mark", ![s].job = j]
          /\ UNCHANGED disk
  /\ UNCHANGED <<jobs, users, engine, recovery, server, settings, now,
                 crashes, inbox>>

\* mark_upload_file_deleted(db, job.job_id)
SweepMark(s) ==
  /\ request[s].pc = "mark"
  /\ jobs' = mark_upload_file_deleted(jobs, request[s].job, now)
  /\ request' = [request EXCEPT ![s].pc = "loop", ![s].job = 0,
                                ![s].todo = @ \ {request[s].job}]
  /\ UNCHANGED <<users, disk, engine, recovery, server, settings, now,
                 crashes, inbox>>

\* cleanup_expired_uploads returns to its handler
EndRequest(s) ==
  /\ request[s].pc = "loop"
  /\ Exhausted(request[s].todo)
  /\ Respond(s, request[s].kind)
  /\ UNCHANGED <<users, recovery, server, settings, now, crashes>>

\* -------------------------------------------------------------- the spec
Next ==
  \/ Tick
  \/ \E j \in Created : EngineStart(j)
  \/ \E j \in Created : EngineOpen(j)
  \/ \E j \in Created, storage_ok \in BOOLEAN : EngineRow(j, storage_ok)
  \/ \E j \in Created, storage_ok \in BOOLEAN : EngineFinalFlush(j, storage_ok)
  \/ \E j \in Created : EngineComplete(j)
  \/ Crash
  \/ \E j \in Created : FileLost(j)
  \/ \E cfg \in Settings : Restart(cfg)
  \/ \E j \in Created : RecoverInterrupted(j)
  \/ RecoverQueryQueued
  \/ \E j \in Created : RecoverQueued(j)
  \/ RecoverReturn
  \/ \E s \in Slots : BeginRequest(s)
  \/ \E s \in Slots, j \in Created, os_error \in BOOLEAN : SweepUnlink(s, j, os_error)
  \/ \E s \in Slots : SweepMark(s)
  \/ \E s \in Slots : EndRequest(s)

Spec == Init /\ [][Next]_vars
SpecEngine == InitEngine /\ [][Next]_vars

TypeOK ==
  /\ \A j \in Created : jobs[j].status \in {"queued", "running", "completed", "failed"}
  /\ server \in {"down", "starting", "serving"}
  /\ now \in 0..MaxTime

\* the next step of the run of job j, of the supervisor, of the operator
Engine(j) ==
  \/ EngineStart(j)
  \/ EngineOpen(j)
  \/ \E storage_ok \in BOOLEAN : EngineRow(j, storage_ok)
  \/ \E storage_ok \in BOOLEAN : EngineFinalFlush(j, storage_ok)
  \/ EngineComplete(j)
Supervisor ==
  \/ \E j \in Created : RecoverInterrupted(j)
  \/ RecoverQueryQueued
  \/ \E j \in Created : RecoverQueued(j)
  \/ RecoverReturn
Startup == \E cfg \in Settings : Restart(cfg)

\* threads that can take a step eventually take it, and a dead process is
\* started again
LiveSpec ==
  /\ InitLive
  /\ [][Next]_vars
  /\ \A j \in JobIds : WF_vars(Engine(j))
  /\ WF_vars(Supervisor)
  /\ WF_vars(Startup)

\* ------------------------------------------------ one run on one upload
\* header rows: cells that are blank, padded, upper-cased or absent
HeaderCells ==
  {CNone, CStr("  "), CStr(" Name "), CStr("EMAIL"), CStr("age"), CStr("phone")}
HeaderFiles ==
  {File(TRUE, <<headers, RowValid>>) : headers \in SeqsUpTo(HeaderCells, MaxCols)}

\* values of REQUIRED_COLUMNS a deployment can set
RequiredSets ==
  {REQUIRED_COLUMNS, <<"name", "email">>, <<"phone", "name", "email", "age">>}
HeaderSettings ==
  [EXCEL_CHUNK_SIZE : 1..MaxChunk, CLEANUP_EXPIRED_UPLOADS : BOOLEAN,
   REQUIRED_COLUMNS : RequiredSets]

\* data rows: blank in every way the blank-row test knows, and not blank
RowNull == <<CNone, CNone, CNone>>
RowEmpty == <<CStr(""), CStr("  "), CStr("")>>
RowZero == <<CInt(0), CNone, CFloat(4)>>
RowAgeOnly == <<CNone, CStr(""), CStr(" 41 ")>>
RowKinds == {RowValid, RowBlank, RowNull, RowEmpty, RowZero, RowAgeOnly}
RowFiles == {FileOf(rows) : rows \in SeqsUpTo(RowKinds, MaxRows)}

\* data rows of every kind of cell value
NameCells == {CNone, CStr(""), CStr(" bob "), CInt(7)}
AgeCells ==
  {CNone, CStr(""), CInt(0), CInt(30), CFloat(307), CFloat(-49), CStr(" 41 "),
   CStr("-4.9"), CStr("abc"), CStr("nan"), CStr("inf"), CNan, CInf}
CellRows == {<<n, e, a>> : n \in NameCells, e \in {CNone, CStr("b@x")}, a \in AgeCells}
CellFiles == {FileOf(<<row>>) : row \in CellRows}

InitHeader == InitGiven({<<f>> : f \in HeaderFiles}, HeaderSettings)
InitRows == InitGiven({<<f>> : f \in RowFiles}, Settings)
InitCells == InitGiven({<<f>> : f \in CellFiles}, Settings)

\* upload_excel and the run it schedules, in a process that stays up
NextRun ==
  \/ BeginRequest(EventLoop)
  \/ \E j \in Created : EngineStart(j)
  \/ \E j \in Created : EngineOpen(j)
  \/ \E j \in Created, storage_ok \in BOOLEAN : EngineRow(j, storage_ok)
  \/ \E j \in Created, storage_ok \in BOOLEAN : EngineFinalFlush(j, storage_ok)
  \/ \E j \in Created : EngineComplete(j)

SpecHeader == InitHeader /\ [][NextRun]_vars
SpecRows == InitRows /\ [][NextRun]_vars
SpecCells == InitCells /\ [][NextRun]_vars

\* ------------------------------------------------------------ the claims
Terminal == {"completed", "failed"}

RECURSIVE RowCount(_)
RowCount(batches) ==
  IF batches = <<>> THEN 0 ELSE Len(Head(batches)) + RowCount(Tail(batches))

\* the data rows of a sheet that the blank-row test keeps
ValidRows(sheet) ==
  {i \in 2..Len(sheet) :
     ~IsBlank(_normalize_row(sheet[i], column_map(sheet[1])).user)}

\* the run of job j in this process ended in a failing bulk write
WriteFailed(j) ==
  /\ engine[j].pc = "returned"
  /\ engine[j].exc.type = "OperationalError"

\* C1: after a run whose bulk write of chunk k raised, the job is failed, its
\* error is not empty and its inserted_rows is the row count of the chunks
\* 1..k-1 the run had flushed
C1_PartialFailureDurability ==
  \A j \in Created :
    WriteFailed(j) =>
      /\ jobs[j].status = "failed"
      /\ jobs[j].error # NoText
      /\ jobs[j].inserted_rows = RowCount(users[j])

\* the run of job j in this process ended without an exception
Succeeded(j) ==
  /\ engine[j].pc = "returned"
  /\ engine[j].exc = NoExc

CeilDiv(n, c) == (n + c - 1) \div c

\* C2: a successful run over N valid rows with chunk size C made ceil(N/C)
\* bulk writes, all of C rows but the last, the last of N mod C rows (C when
\* C divides N), none empty, and left the job completed with inserted_rows = N
C2_ChunkingCorrectness ==
  \A j \in Created :
    Succeeded(j) =>
      LET N == Cardinality(ValidRows(disk[j].file.sheet))
          C == settings.EXCEL_CHUNK_SIZE
          writes == users[j]
      IN /\ Len(writes) = CeilDiv(N, C)
         /\ \A i \in 1..Len(writes) :
              /\ writes[i] # <<>>
              /\ i < Len(writes) => Len(writes[i]) = C
              /\ i = Len(writes) =>
                   Len(writes[i]) = IF N % C = 0 THEN C ELSE N % C
         /\ jobs[j].status = "completed"
         /\ jobs[j].inserted_rows = N

\* a completed run of three valid rows in chunks of two: writes of 2 and 1
C2_Witness ==
  \E j \in Created :
    /\ Succeeded(j)
    /\ settings.EXCEL_CHUNK_SIZE = 2
    /\ Cardinality(ValidRows(disk[j].file.sheet)) = 3
    /\ Len(users[j]) = 2

Frozen(j) ==
  /\ jobs'[j].status = jobs[j].status
  /\ jobs'[j].error = jobs[j].error
  /\ jobs'[j].inserted_rows = jobs[j].inserted_rows
  /\ jobs'[j].started_at = jobs[j].started_at
  /\ jobs'[j].completed_at = jobs[j].completed_at

\* C3: no step changes the status, error, inserted_rows, started_at or
\* completed_at of a job that is completed or failed
C3_TerminalImmutability ==
  [][\A j \in Created : jobs[j].status \in Terminal => Frozen(j)]_vars

\* a job that ended before a crash has since seen a recovery and a sweep
C3_Witness ==
  \E j \in Created :
    /\ jobs[j].status \in Terminal
    /\ jobs[j].completed_at < now
    /\ jobs[j].file_deleted_at # NoTime
    /\ crashes >= 1
    /\ recovery.pc = "done"

Live == {"open", "rows", "complete"}

\* C4: the supervisor has failed, with the interrupted message, every job its
\* first query returned before it queries the queued jobs; until then no
\* run has been started, and from then on every running job is one that a
\* run of this process is working on
C4_RecoveryOrdering ==
  /\ recovery.pc = "interrupted" =>
       /\ recovery.queued = {}
       /\ \A j \in JobIds : engine[j].pc = "none"
  /\ recovery.pc = "queued" =>
       \A j \in recovery.interrupted :
         /\ jobs[j].status = "failed"
         /\ jobs[j].error = MsgInterrupted
  /\ recovery.pc \in {"queued", "done"} =>
       \A j \in Created :
         jobs[j].status = "running" => engine[j].pc \in Live

\* a restart that found a running job and a queued job
C4_Witness ==
  /\ recovery.pc = "queued"
  /\ recovery.interrupted # {}
  /\ recovery.queued # {}

\* the supervisor's loop visits queued job j
VisitsQueued(j) ==
  /\ recovery.pc = "queued"
  /\ recovery'.pc = "queued"
  /\ j \in recovery.todo
  /\ j \notin recovery'.todo

\* C5: visiting a queued job, the supervisor starts a run for it and leaves
\* the job as it is when the file exists, and otherwise fails it with the
\* file-not-found message and starts nothing; a job failed this way has no
\* run, no started_at, no inserted rows
C5_RecoveryOfQueued ==
  /\ [][\A j \in Created :
          VisitsQueued(j) =>
            IF disk[jobs[j].saved_path].exists
            THEN /\ engine'[j].pc = "pending"
                 /\ jobs'[j] = jobs[j]
            ELSE /\ jobs'[j].status = "failed"
                 /\ jobs'[j].error = MsgFileNotFound
                 /\ engine'[j].pc = "none"]_vars
  /\ [](\A j \in Created :
          jobs[j].error = MsgFileNotFound =>
            /\ jobs[j].status = "failed"
            /\ engine[j].pc = "none"
            /\ jobs[j].started_at = NoTime
            /\ jobs[j].inserted_rows = 0
            /\ users[j] = <<>>)

\* the supervisor has returned: one queued job was failed for its missing
\* file, the run it started for an older job is still under way
C5_Witness ==
  /\ recovery.pc = "done"
  /\ \E j, k \in Created :
       /\ jobs[k].error = MsgFileNotFound
       /\ jobs[j].created_at < jobs[k].completed_at
       /\ engine[j].pc \in Live \cup {"pending"}

Interrupted(j) ==
  /\ jobs[j].status = "failed"
  /\ jobs[j].error = MsgInterrupted

\* C6: the supervisor fails a job it finds running; a job it has failed is
\* not returned by the running query of a later startup, and no step
\* rewrites its status, error or completed_at
C6_RecoveryIdempotence ==
  [][\A j \in Created :
       /\ (/\ recovery.pc = "interrupted"
           /\ recovery'.pc = "interrupted"
           /\ j \in recovery.todo
           /\ j \notin recovery'.todo) =>
            /\ jobs[j].status = "running"
            /\ Interrupted(j)'
       /\ (Interrupted(j) /\ server = "down" /\ server' = "starting") =>
            j \notin recovery'.interrupted
       /\ Interrupted(j) =>
            /\ Interrupted(j)'
            /\ jobs'[j].completed_at = jobs[j].completed_at]_vars

\* the second supervisor of the behaviour is past its first loop and has
\* left alone a job that the first one failed at an earlier hour
C6_Witness ==
  /\ crashes = 2
  /\ recovery.pc = "queued"
  /\ \E j \in Created :
       /\ Interrupted(j)
       /\ j \notin recovery.interrupted
       /\ jobs[j].completed_at < now

Eligible(j) ==
  /\ jobs[j].status \in Terminal
  /\ jobs[j].completed_at # NoTime
  /\ now >= jobs[j].completed_at + UPLOAD_FILE_RETENTION_HOURS

\* the running process removes the file of job j or writes its file_deleted_at
Sweeps(j) ==
  \/ jobs'[j].file_deleted_at # jobs[j].file_deleted_at
  \/ server # "down" /\ disk[j].exists /\ ~disk'[j].exists

\* C7: a sweep removes a file or writes file_deleted_at only for a terminal
\* job whose completed_at is at least the retention window old, and selects
\* only such jobs whose file_deleted_at is not set
C7_CleanupEligibility ==
  [][/\ \A j \in Created : Sweeps(j) => Eligible(j)
     /\ \A s \in Slots :
          (request[s].pc = "idle" /\ request'[s].pc = "loop") =>
            \A j \in request'[s].todo :
              /\ j \in Created
              /\ Eligible(j)
              /\ jobs[j].file_deleted_at = NoTime]_vars

\* a job that ended at hour 1 was swept, at hour 2
C7_Witness ==
  \E j \in Created :
    /\ jobs[j].completed_at = 1
    /\ jobs[j].file_deleted_at = 1 + UPLOAD_FILE_RETENTION_HOURS
    /\ ~disk[j].exists

\* C8: once file_deleted_at of a job is set, no step changes it
C8_FileDeletedAtSetOnce ==
  [][\A j \in Created :
       jobs[j].file_deleted_at # NoTime =>
         jobs'[j].file_deleted_at = jobs[j].file_deleted_at]_vars

\* C9: no exception leaves process_excel_job; a run that raised has returned,
\* its job is failed with the exception's text as error, and a run that has
\* returned writes nothing more
C9_EngineErrorContainment ==
  /\ [](\A j \in Created :
          /\ engine[j].pc # "raised"
          /\ engine[j].exc # NoExc =>
               /\ engine[j].pc = "returned"
               /\ jobs[j].status = "failed"
               /\ jobs[j].error = engine[j].exc.text)
  /\ [][\A j \in Created :
          engine[j].pc = "returned" =>
            /\ users'[j] = users[j]
            /\ engine'[j].pc \in {"returned", "none"}]_vars

\* a run that had written a chunk failed on a row with rows left to read
C9_Witness ==
  \E j \in Created :
    /\ engine[j].pc = "returned"
    /\ engine[j].exc.type = "OverflowError"
    /\ jobs[j].error = MsgOverflow
    /\ users[j] # <<>>
    /\ engine[j].pos + 1 < Len(disk[j].file.sheet)

\* C10: a running job eventually is completed or failed, and what takes it
\* out of running is its own run returning or the supervisor's first loop
C10_RunningJobsTerminate ==
  /\ \A j \in JobIds :
       (j \in Created /\ jobs[j].status = "running")
         ~> (j \in Created /\ jobs[j].status \in Terminal)
  /\ [][\A j \in Created :
          (jobs[j].status = "running" /\ jobs'[j].status # "running") =>
            /\ jobs'[j].status \in Terminal
            /\ \/ engine[j].pc \in Live /\ engine'[j].pc = "returned"
               \/ /\ recovery.pc = "interrupted"
                  /\ j \in recovery.todo
                  /\ Interrupted(j)']_vars

\* a job whose run died with the process was failed by the supervisor
C10_Witness ==
  \E j \in Created :
    /\ Interrupted(j)
    /\ jobs[j].started_at # NoTime
    /\ server = "serving"

\* C11: every flush of a job's run uses the chunk_size stored in the job's
\* ledger record at creation: a flush inside the row loop writes exactly
\* that many rows and the flush after the loop fewer, whatever chunk size
\* the process that runs the job was configured with
C11_ChunkSizeCaptured ==
  [][\A j \in Created :
       users'[j] # users[j] =>
         LET batch == users'[j][Len(users'[j])] IN
         IF engine[j].pos < Len(disk[j].file.sheet)
         THEN Len(batch) = jobs[j].chunk_size
         ELSE Len(batch) < jobs[j].chunk_size]_vars

\* the header cells as the claim reads them: trimmed, lower-cased, non-blank
TrimmedLower(headers) ==
  {lower(strip(headers[i].s)) :
     i \in {k \in 1..Len(headers) : headers[k].t = "str" /\ strip(headers[k].s) # ""}}

\* the column names a schema error lists after "Missing:"
NamedMissing(error) ==
  IF "Missing:" \notin Range(error) THEN {}
  ELSE LET k == CHOOSE i \in 1..Len(error) : error[i] = "Missing:"
       IN {error[i] : i \in (k + 1)..Len(error)}

\* the run of job j is past the header check, or has ended
HeaderChecked(j) == engine[j].pc \in {"rows", "complete", "returned", "raised"}

\* C12: for every header row and required-column set, when a required column
\* is absent from the trimmed, lower-cased, non-blank header cells the run
\* fails, the recorded error names exactly the required columns the header
\* lacks, and no row is written to storage
C12_SchemaFailureReportsAllMissing ==
  \A j \in Created :
    LET absent == Range(settings.REQUIRED_COLUMNS) \ TrimmedLower(disk[j].file.sheet[1])
    IN (HeaderChecked(j) /\ absent # {}) =>
         /\ engine[j].pc = "returned"
         /\ jobs[j].status = "failed"
         /\ Head(jobs[j].error) = "Excel must contain columns:"
         /\ NamedMissing(jobs[j].error) = absent
         /\ users[j] = <<>>

\* required {name, email, age}, header {name}: the error names email and age
C12_Witness ==
  \E j \in Created :
    /\ HeaderChecked(j)
    /\ settings.REQUIRED_COLUMNS = <<"name", "email", "age">>
    /\ TrimmedLower(disk[j].file.sheet[1]) = {"name"}
    /\ NamedMissing(jobs[j].error) = {"email", "age"}
    /\ jobs[j].status = "failed"

\* the committed batches of a job, end to end
RECURSIVE Flatten(_)
Flatten(batches) ==
  IF batches = <<>> THEN <<>> ELSE Head(batches) \o Flatten(Tail(batches))

\* the claim's blank record: empty name, empty email, age 0
BlankRecord(user) == user.name = "" /\ user.email = "" /\ user.age = 0

\* the normalized records of the rows 2..n of a sheet that are not blank
RECURSIVE KeptUpTo(_, _)
KeptUpTo(sheet, n) ==
  IF n <= 1 THEN <<>>
  ELSE LET user == _normalize_row(sheet[n], column_map(sheet[1])).user
       IN KeptUpTo(sheet, n - 1) \o (IF BlankRecord(user) THEN <<>> ELSE <<user>>)

IsPrefix(s, t) == Len(s) <= Len(t) /\ s = SubSeq(t, 1, Len(s))

C14_InsertedRowsTracksChunks ==
  \A j \in Created :
    (jobs[j].status = "running" /\ engine[j].pc \in {"rows", "complete"}) =>
      jobs[j].inserted_rows = RowCount(users[j])

\* C15: the committed chunks of a job only ever grow; the step in which a
\* run fails commits nothing; and once the job is failed no chunk is written
\* for it again, so the chunks flushed before the failure stay as they were
C15_ChunkAtomicIngestion ==
  [][\A j \in Created :
       /\ IsPrefix(users[j], users'[j])
       /\ (jobs[j].status # "failed" /\ jobs'[j].status = "failed") =>
            users'[j] = users[j]
       /\ (engine[j].exc # NoExc \/ jobs[j].status = "failed") =>
            users'[j] = users[j]]_vars

\* a run that failed on its third chunk, the first two still in storage
C15_Witness ==
  \E j \in Created :
    /\ WriteFailed(j)
    /\ jobs[j].status = "failed"
    /\ Len(users[j]) = 2
    /\ engine[j].pos = 3

\* C16: a job leaves the list of a running sweep only with file_deleted_at
\* set to the current time, whether its file was deleted, was already
\* missing, or could not be deleted
C16_SweeperRecordsDeletion ==
  [][\A s \in Slots, j \in Created :
       (j \in request[s].todo /\ request'[s].pc \in {"loop", "mark"}) =>
         \/ j \in request'[s].todo
         \/ jobs'[j].file_deleted_at = now]_vars

\* C17: a filesystem error on one job's file takes only that job off the
\* sweep's list; every other selected job stays on it until its file is
\* gone and its file_deleted_at is written, and the sweep returns to its
\* handler only when the list is empty, wherever the failing job stood
C17_SweepErrorIsolation ==
  [][\A s \in Slots :
       /\ (request[s].pc # "idle" /\ request'[s].pc = "idle" /\ server' # "down") =>
            request[s].todo = {}
       /\ \A j \in Created :
            (j \in request[s].todo /\ j \notin request'[s].todo /\ server' # "down") =>
              /\ request'[s].todo = request[s].todo \ {j}
              /\ request'[s].pc = "loop"
              /\ \A k \in Created \ {j} : jobs'[k] = jobs[k] /\ disk'[k] = disk[k]
              /\ request[s].pc = "mark" =>
                   /\ jobs'[j].file_deleted_at = now
                   /\ ~disk'[jobs[j].saved_path].exists]_vars

\* a sweep that ran at time 1 over two jobs completed at time 0: one kept
\* its file after a filesystem error, the other was deleted and recorded
C17_Witness ==
  \E s \in Slots, j \in Created, k \in Created :
    /\ j # k
    /\ now = 1
    /\ request[s].pc = "loop"
    /\ request[s].todo = {}
    /\ jobs[j].completed_at = 0
    /\ jobs[j].file_deleted_at = NoTime
    /\ disk[jobs[j].saved_path].exists
    /\ jobs[k].completed_at = 0
    /\ jobs[k].file_deleted_at = 1
    /\ ~disk[jobs[k].saved_path].exists

\* the lifecycle timestamps of a ledger record are in order
Ordered(job) ==
  /\ job.created_at # NoTime
  /\ job.started_at # NoTime => job.started_at >= job.created_at
  /\ job.completed_at # NoTime =>
       /\ job.completed_at >= job.created_at
       /\ job.started_at # NoTime => job.completed_at >= job.started_at

\* C18: in every ledger state created_at is set, started_at when set is not
\* before created_at, completed_at when set is not before started_at (when
\* set) nor created_at; and no step changes a created_at, or a started_at or
\* completed_at that is set
C18_LifecycleTimestamps ==
  /\ [](\A j \in Created : Ordered(jobs[j]))
  /\ [][\A j \in Created :
          /\ jobs'[j].created_at = jobs[j].created_at
          /\ jobs[j].started_at # NoTime => jobs'[j].started_at = jobs[j].started_at
          /\ jobs[j].completed_at # NoTime =>
               jobs'[j].completed_at = jobs[j].completed_at]_vars

\* a job created at 0, started at 1, failed by the recovery at 2, after a
\* later restart
C18_Witness ==
  \E j \in Created :
    /\ jobs[j].created_at = 0
    /\ jobs[j].started_at = 1
    /\ jobs[j].completed_at = 2
    /\ jobs[j].error = MsgInterrupted
    /\ crashes = 2
    /\ server = "serving"

\* exceptions that come out of _normalize_row
RowErrors == {"OverflowError", "IndexError", "TypeError", "ValueError"}

\* C19: _normalize_row returns a record for every data row, whatever its
\* cells hold, and no run ends with an exception raised by a cell
C19_NormalizerNeverRaises ==
  \A j \in Created :
    LET sheet == disk[j].file.sheet IN
    engine[j].pc \in {"rows", "complete", "returned", "raised"} =>
      /\ \A i \in 2..engine[j].pos :
           _normalize_row(sheet[i], column_map(sheet[1])).exc = NoExc
      /\ engine[j].exc.type \notin RowErrors

\* C20: a run is started for a job only when no run of it exists, the job
\* is queued and has no row in storage; a queued job has committed no rows;
\* and the rows committed for a job never exceed the rows of its file that
\* the blank-row test keeps
C20_NoDuplicateIngestion ==
  /\ [](\A j \in Created :
          /\ jobs[j].status = "queued" => users[j] = <<>>
          /\ users[j] # <<>> =>
               RowCount(users[j]) <= Cardinality(ValidRows(disk[j].file.sheet)))
  /\ [][\A j \in JobIds :
          (engine'[j].pc = "pending" /\ engine[j].pc # "pending") =>
            /\ engine[j].pc = "none"
            /\ jobs'[j].status = "queued"
            /\ users[j] = <<>>]_vars

\* a queued job that the recovery resumed after a crash took every row of
\* its three-row file once, before the recovery returned
C20_Witness ==
  \E j \in Created :
    /\ crashes >= 1
    /\ recovery.pc # "done"
    /\ Succeeded(j)
    /\ jobs[j].status = "completed"
    /\ Cardinality(ValidRows(disk[j].file.sheet)) = 3
    /\ RowCount(users[j]) = 3

====
